---- MODULE Spec2Model ----
(***************************************************************************)
(* A model of the QA agent: the FastAPI backend (src/Backend.py) and the   *)
(* Streamlit front end (src/Frontend.py).                                  *)
(*                                                                         *)
(* Backend.  The three endpoints are async def coroutines that never     *)
(* await, served by one uvicorn process (Backend.py:211-212), so a handler *)
(* runs from its first line to its response without another request        *)
(* running in between: each handler is one atomic action, and concurrent   *)
(* requests are every order of these actions.  The embedding model, the    *)
(* vector store and the LLM are outside the repository: each call to one   *)
(* of them either returns or raises, chosen by the environment.  An        *)
(* exception no handler catches leaves the endpoint and FastAPI answers    *)
(* 500 with the fixed body "Internal Server Error".                        *)
(*                                                                         *)
(* Texts (plans, scripts, table cells) are sequences of one-character      *)
(* strings, so that strip, split, startswith and replace are computed      *)
(* character by character as Python computes them.                         *)
(***************************************************************************)
EXTENDS Naturals, Sequences, FiniteSets, TLC

VARIABLES
    llm,        \* Backend.py:49-61  TRUE iff the module-level llm is not None
    dir,        \* the files of UPLOAD_DIR: file name -> content, or NoFile
    store,      \* the chunks of vector_db, in the order they were added
    last,       \* the last request handled and the response it got
    nIngest,    \* number of ingest requests handled so far
    ui,         \* the Streamlit session: mode, session_state, the script loop
    txt,        \* the text functions' input and output (parser, cleanup)
    conn        \* the ingest requests the server holds, each with the line
                \* its handler has reached (SpecConc)

vars == <<llm, dir, store, last, nIngest, ui, txt, conn>>

(***************************************************************************)
(* Bounds                                                                  *)
(***************************************************************************)
MaxIngests == 2
MaxClients == 2

(***************************************************************************)
(* Files and their contents                                                *)
(***************************************************************************)
HtmlName == "checkout.html"
NoFile == "<no file>"

\* File names a client can send.  "sub/c.txt" names a directory that nothing
\* creates under UPLOAD_DIR, so open(file_path, "wb") raises for it.
PdfNames == {"b.pdf"}
StorableNames == {"a.txt", "b.pdf", HtmlName}
UnstorableNames == {"sub/c.txt"}

\* Contents: "t1" is UTF-8 text, "bin" is bytes that are not UTF-8, "pdf2" is
\* a two-page PDF; "h1" and "h2" are UTF-8 HTML documents, "hbin" is not
\* UTF-8, "hempty" is the empty file.
Utf8Contents == {"t1", "h1", "h2", "hempty"}
EmptyContents == {"hempty"}
LongContents == {"h2"}

Storable(name) == name \in StorableNames

Doc(content, part, source, type) ==
    [content |-> content, part |-> part, source |-> source, type |-> type]

\* load_document: PyPDFLoader for *.pdf (one Document per page), TextLoader
\* (UTF-8) for everything else; either raises on a file it cannot read.
LoadDocument(name, content) ==
    IF name \in PdfNames
    THEN IF content = "pdf2"
         THEN [ok |-> TRUE, docs |-> <<Doc(content, "page0", name, "none"),
                                      Doc(content, "page1", name, "none")>>]
         ELSE [ok |-> FALSE, docs |-> <<>>]
    ELSE IF content \in Utf8Contents
         THEN [ok |-> TRUE, docs |-> <<Doc(content, "all", name, "none")>>]
         ELSE [ok |-> FALSE, docs |-> <<>>]

\* process_html_file: re-reads the file at html_path as UTF-8 and returns
\* the visible text and the raw markup, both tagged source checkout.html.
ProcessHtmlFile(d) ==
    IF d[HtmlName] \in Utf8Contents
    THEN [ok |-> TRUE, docs |-> <<Doc(d[HtmlName], "all", HtmlName, "text"),
                                 Doc(d[HtmlName], "all", HtmlName, "code")>>]
    ELSE [ok |-> FALSE, docs |-> <<>>]

\* RecursiveCharacterTextSplitter(1000, 100): nothing for an empty document,
\* one chunk for a document within the window, more for a longer one (here
\* the raw markup of a long page: two windows).
SplitOne(doc) ==
    IF doc.content \in EmptyContents THEN <<>>
    ELSE IF doc.content \in LongContents /\ doc.type = "code"
         THEN <<[doc EXCEPT !.part = "w0"], [doc EXCEPT !.part = "w1"]>>
         ELSE <<doc>>

RECURSIVE SplitDocuments(_)
SplitDocuments(docs) ==
    IF docs = <<>> THEN <<>>
    ELSE SplitOne(Head(docs)) \o SplitDocuments(Tail(docs))

(***************************************************************************)
(* Responses                                                               *)
(***************************************************************************)
ConfigDetail == "GOOGLE_API_KEY not configured."
NotFoundDetail == "checkout.html not found. Please run /build-knowledge-base first."
InternalServerError == "Internal Server Error"

\* str(e) of the exception an upstream collaborator raised.
UpstreamText(who) ==
    IF who = "store" THEN "vector store: unavailable" ELSE "llm: quota exceeded"

\* What a handler did with its collaborators: the calls it made to the
\* vector store (add, retrieve) and to the LLM, which collaborator raised,
\* and the HTML it put into the prompt.
NoCalls == [add |-> 0, retrieve |-> 0, llm |-> 0, raised |-> "none", html |-> NoFile]

Response(status, detail, chunks, body, calls) ==
    [status |-> status, detail |-> detail, chunks_created |-> chunks,
     body |-> body, calls |-> calls]

\* raise HTTPException(status_code, detail)
HttpError(status, detail, calls) == Response(status, detail, 0, <<>>, calls)

\* An exception that leaves the endpoint: FastAPI's answer to it.
Unhandled(calls) == Response(500, InternalServerError, 0, <<>>, calls)

(***************************************************************************)
(* POST /build-knowledge-base                                              *)
(***************************************************************************)
\* 1. Process Support Docs (Backend.py:105-113): each file is written under
\* its own name, outside the try; load_document runs inside it, and a file
\* that does not load is skipped.
RECURSIVE StoreAndLoadNoTry(_, _, _)
StoreAndLoadNoTry(files, d, docs) ==
    IF files = <<>> THEN [dir |-> d, docs |-> docs, raised |-> FALSE]
    ELSE LET f == Head(files) IN
         IF ~Storable(f.name) THEN [dir |-> d, docs |-> docs, raised |-> TRUE]
         ELSE LET d2 == [d EXCEPT ![f.name] = f.content]
                  ld == LoadDocument(f.name, d2[f.name])
              IN  IF ld.ok THEN StoreAndLoadNoTry(Tail(files), d2, docs \o ld.docs)
                  ELSE [dir |-> d2, docs |-> docs, raised |-> TRUE]

RECURSIVE StoreAndLoad(_, _, _)
StoreAndLoad(files, d, docs) ==
    IF files = <<>> THEN [dir |-> d, docs |-> docs, raised |-> FALSE]
    ELSE LET f == Head(files) IN
         IF ~Storable(f.name) THEN [dir |-> d, docs |-> docs, raised |-> TRUE]
         ELSE LET d2 == [d EXCEPT ![f.name] = f.content]
                  ld == LoadDocument(f.name, d2[f.name])
              IN  StoreAndLoad(Tail(files), d2,
                               IF ld.ok THEN docs \o ld.docs ELSE docs)

\* 2. Process HTML (Backend.py:116-118): the upload is written to the fixed
\* path whatever its own name is.
WriteHtmlOwnName(d, html) == [d EXCEPT ![html.name] = html.content]

WriteHtml(d, html) == [d EXCEPT ![HtmlName] = html.content]

\* vector_db.add_documents (Backend.py:126): appends; no key, no dedup.
RECURSIVE AddDocumentsDedup(_, _)
AddDocumentsDedup(st, chunks) ==
    IF chunks = <<>> THEN st
    ELSE AddDocumentsDedup(
            IF \E i \in 1..Len(st) : st[i] = Head(chunks) THEN st
            ELSE Append(st, Head(chunks)),
            Tail(chunks))

AddDocuments(st, chunks) == st \o chunks

\* The handler.  addRaises: the embedding model or the vector store raises in
\* add_documents (the store is then as before the call).
BuildKnowledgeBase(d, st, req, addRaises) ==
    LET s1 == StoreAndLoad(req.files, d, <<>>) IN
    IF s1.raised
    THEN [dir |-> s1.dir, store |-> st, resp |-> Unhandled(NoCalls)]
    ELSE
    LET d2 == WriteHtml(s1.dir, req.html)
        h == ProcessHtmlFile(d2)
    IN
    IF ~h.ok
    THEN [dir |-> d2, store |-> st, resp |-> Unhandled(NoCalls)]
    ELSE
    LET chunked == SplitDocuments(s1.docs \o h.docs) IN
    IF chunked = <<>>
    THEN [dir |-> d2, store |-> st, resp |-> Response(200, "", 0, <<>>, NoCalls)]
    ELSE IF addRaises
    THEN [dir |-> d2, store |-> st,
          resp |-> Unhandled([NoCalls EXCEPT !.add = 1, !.raised = "store"])]
    ELSE [dir |-> d2, store |-> AddDocuments(st, chunked),
          resp |-> Response(200, "", Len(chunked), <<>>,
                            [NoCalls EXCEPT !.add = 1])]

(***************************************************************************)
(* POST /generate-test-cases                                               *)
(***************************************************************************)
\* outcome: what the chain's collaborators do ("ok", "store" raises in the
\* retriever, "llm" raises); text: what the LLM returns.
GenerateTestCases(hasLlm, outcome, text) ==
    IF ~hasLlm THEN HttpError(500, ConfigDetail, NoCalls)
    ELSE IF outcome = "store"
    THEN HttpError(500, UpstreamText("store"),
                   [NoCalls EXCEPT !.retrieve = 1, !.raised = "store"])
    ELSE IF outcome = "llm"
    THEN HttpError(500, UpstreamText("llm"),
                   [NoCalls EXCEPT !.retrieve = 1, !.llm = 1, !.raised = "llm"])
    ELSE Response(200, "", 0, text, [NoCalls EXCEPT !.retrieve = 1, !.llm = 1])

(***************************************************************************)
(* POST /generate-selenium-script                                          *)
(***************************************************************************)
\* The checks in the order of the code: llm, then the artifact.
ScriptPrecheckFileFirst(hasLlm, d) ==
    IF d[HtmlName] = NoFile THEN HttpError(404, NotFoundDetail, NoCalls)
    ELSE IF ~hasLlm THEN HttpError(500, ConfigDetail, NoCalls)
    ELSE Response(200, "", 0, <<>>, NoCalls)

ScriptPrecheck(hasLlm, d) ==
    IF ~hasLlm THEN HttpError(500, ConfigDetail, NoCalls)
    ELSE IF d[HtmlName] = NoFile THEN HttpError(404, NotFoundDetail, NoCalls)
    ELSE Response(200, "", 0, <<>>, NoCalls)

GenerateSeleniumScript(hasLlm, d, outcome, text) ==
    LET pre == ScriptPrecheck(hasLlm, d) IN
    IF pre.status # 200 THEN pre
    \* f.read() with encoding utf-8, outside any try
    ELSE IF d[HtmlName] \notin Utf8Contents THEN Unhandled(NoCalls)
    \* vector_db.similarity_search, outside the try
    ELSE IF outcome = "store"
    THEN Unhandled([NoCalls EXCEPT !.retrieve = 1, !.raised = "store",
                                   !.html = d[HtmlName]])
    \* llm.invoke, inside the try
    ELSE IF outcome = "llm"
    THEN HttpError(500, UpstreamText("llm"),
                   [NoCalls EXCEPT !.retrieve = 1, !.llm = 1, !.raised = "llm",
                                   !.html = d[HtmlName]])
    ELSE Response(200, "", 0, text,
                  [NoCalls EXCEPT !.retrieve = 1, !.llm = 1, !.html = d[HtmlName]])

(***************************************************************************)
(* The backend as a state machine: any client, any order of requests       *)
(***************************************************************************)
SupportFile(name, content) == [name |-> name, content |-> content]

\* The support files a client can send: a good text file, one that is not
\* UTF-8, one whose name cannot be opened for writing; a good PDF, and a
\* file that is named like the HTML artifact.
GoodText == SupportFile("a.txt", "t1")
BadText == SupportFile("a.txt", "bin")
BadName == SupportFile("sub/c.txt", "t1")
GoodPdf == SupportFile("b.pdf", "pdf2")
NamedLikeHtml == SupportFile(HtmlName, "t1")

SupportFiles == {GoodText, BadText, BadName}

\* files: List[UploadFile] = File(...): at least one file.  Here every batch
\* of one or two of the three support files, and four batches with the PDF
\* and with the file named like the artifact.
FileBatches ==
    {<<f>> : f \in SupportFiles} \cup {<<f, g>> : f, g \in SupportFiles}
    \cup {<<GoodPdf>>, <<BadText, GoodPdf>>, <<NamedLikeHtml>>,
          <<NamedLikeHtml, BadName>>}

HtmlUploads == {[name |-> "page.html", content |-> c] : c \in {"h1", "h2", "hbin", "hempty"}}

FileNames == StorableNames \cup {"page.html"}

Outcomes == {"ok", "store", "llm"}

\* What the LLM returns in the backend's own specification.
AnyText == <<"x">>
AnyPrompt == <<"q">>

NoRequest == [op |-> "none", req |-> <<>>,
              resp |-> Response(0, "", 0, <<>>, NoCalls)]

\* The Streamlit session before any interaction: the sidebar on its first
\* mode, nothing in st.session_state, no script loop running.
\*   hasPlan, plan   'last_test_plan' in st.session_state, and its value
\*   pc              "idle", or where the Generate Scripts loop stands:
\*                   "send" before requests.post, "wait" during it
\*   rows, checked   the table of the run and the rows the user ticked
\*   selected, i, total, progress   selected_cases, the loop index, len(...),
\*                   and the last value given to progress_bar.progress
\*   inflight        requests sent and not yet answered
\*   issued, shown   the test_case payloads sent and what each answer showed
\*   manual          what the manual path showed
\*   okPlan          the text of the most recent 200 answer to Generate Plan
UiIdle ==
    [mode |-> "Phase 1", hasPlan |-> FALSE, plan |-> <<>>,
     pc |-> "idle", rows |-> <<>>, checked |-> {}, selected |-> <<>>,
     i |-> 0, total |-> 0, progress |-> <<0, 1>>, inflight |-> 0,
     issued |-> <<>>, shown |-> <<>>, manual |-> "none",
     okPlan |-> [seen |-> FALSE, text |-> <<>>]]
TxtIdle == [pc |-> "none"]

\* The connections on which ingest requests arrive, and a connection with
\* no request on it.  For a request the server holds:
\*   pc     "accepted" (parsed, its handler not yet started), then the line
\*          the handler has reached: "stored" (support files done, 113),
\*          "written" (HTML written to the fixed path, 118), "read"
\*          (process_html_file returned, 119)
\*   req    the uploads of the request
\*   docs   the handler's local documents
Clients == 1..MaxClients
NoHandler == [pc |-> "idle", req |-> [files |-> <<>>, html |-> NoFile], docs |-> <<>>]
ConnIdle == [c \in Clients |-> NoHandler]

Init ==
    /\ llm \in BOOLEAN
    /\ dir = [n \in FileNames |-> NoFile]
    /\ store = <<>>
    /\ last = NoRequest
    /\ nIngest = 0
    /\ ui = UiIdle
    /\ txt = TxtIdle
    /\ conn = ConnIdle

Ingest ==
    \E files \in FileBatches, html \in HtmlUploads, addRaises \in BOOLEAN :
        /\ nIngest < MaxIngests
        /\ LET req == [files |-> files, html |-> html]
               r == BuildKnowledgeBase(dir, store, req, addRaises)
           IN  /\ dir' = r.dir
               /\ store' = r.store
               /\ last' = [op |-> "ingest", req |-> req, resp |-> r.resp]
        /\ nIngest' = nIngest + 1
        /\ UNCHANGED <<llm, ui, txt, conn>>

Plan ==
    \E outcome \in Outcomes :
        /\ last' = [op |-> "plan", req |-> [prompt |-> AnyPrompt],
                    resp |-> GenerateTestCases(llm, outcome, AnyText)]
        /\ UNCHANGED <<llm, dir, store, nIngest, ui, txt, conn>>

Script ==
    \E outcome \in Outcomes :
        /\ last' = [op |-> "script", req |-> [test_case |-> AnyPrompt],
                    resp |-> GenerateSeleniumScript(llm, dir, outcome, AnyText)]
        /\ UNCHANGED <<llm, dir, store, nIngest, ui, txt, conn>>

Next == Ingest \/ Plan \/ Script

Spec == Init /\ [][Next]_vars

(***************************************************************************)
(* Claims about the backend (checked under Spec)                           *)
(***************************************************************************)
IsPrefix(s, t) == Len(s) <= Len(t) /\ SubSeq(t, 1, Len(s)) = s

Suffix(s, k) == SubSeq(s, Len(s) - k + 1, Len(s))

\* A step that handled an ingest request (no other step counts one).
IngestStep == nIngest' = nIngest + 1

\* The last request was a Generate Script request.  No request has been
\* handled since, so dir and store are as that request left them, and as it
\* found them (the handler writes neither).
LastWasScript == last.op = "script"
LastWasIngest == last.op = "ingest"

\* C1 as stated: Generate Script answers 404 in every state in which no
\* ingest has written the HTML artifact, whatever the configuration.
C1_NotFoundWhateverConfig ==
    (LastWasScript /\ dir[HtmlName] = NoFile) => last.resp.status = 404

\* C1, amended: with the LLM configured, Generate Script answers 404 exactly
\* when the HTML artifact does not exist; with no LLM configured it answers
\* the configuration failure (500) whether the artifact exists or not.  Once
\* the artifact exists the answer is never 404, and when the artifact is
\* UTF-8 the request goes on to retrieval, and to the LLM call when
\* retrieval returns.
C1_NotFoundIffNoArtifact ==
    LastWasScript =>
        /\ llm => (last.resp.status = 404 <=> dir[HtmlName] = NoFile)
        /\ ~llm => (last.resp.status = 500 /\ last.resp.detail = ConfigDetail)
        /\ last.resp.status = 404 => last.resp.detail = NotFoundDetail
        /\ (llm /\ dir[HtmlName] \in Utf8Contents) =>
              /\ last.resp.calls.retrieve = 1
              /\ last.resp.calls.raised # "store" => last.resp.calls.llm = 1

\* C1's case: the LLM is configured, an ingest request has been handled but
\* failed before writing the artifact, and Generate Script answered 404.
C1_Witness ==
    llm /\ LastWasScript /\ last.resp.status = 404 /\ nIngest > 0

\* What the request's support files and HTML file should add to the store:
\* the chunks of every support file that loads, in order, then the chunks of
\* the two HTML segments.
Loads(f) == LoadDocument(f.name, f.content).ok

RECURSIVE LoadableDocs(_)
LoadableDocs(files) ==
    IF files = <<>> THEN <<>>
    ELSE (IF Loads(Head(files))
          THEN LoadDocument(Head(files).name, Head(files).content).docs
          ELSE <<>>) \o LoadableDocs(Tail(files))

ExpectedChunks(req) ==
    SplitDocuments(LoadableDocs(req.files)
                   \o <<Doc(req.html.content, "all", HtmlName, "text"),
                        Doc(req.html.content, "all", HtmlName, "code")>>)

AllStorable(files) == \A i \in 1..Len(files) : Storable(files[i].name)

\* The request's own HTML file parses and no upstream collaborator raised:
\* whatever fails in such a request is a support file.
OnlySupportFilesCanFail ==
    /\ LastWasIngest
    /\ last.req.html.content \in Utf8Contents
    /\ last.resp.calls.raised = "none"

\* C2 as stated: whatever subset of the support files fails (cannot be
\* stored, decoded or parsed), the ingest request succeeds and appends the
\* chunks of every other support file and of the HTML file.
C2_BadFileNeverAborts ==
    OnlySupportFilesCanFail =>
        /\ last.resp.status = 200
        /\ Len(store) >= last.resp.chunks_created
        /\ Suffix(store, last.resp.chunks_created) = ExpectedChunks(last.req)

\* C2, amended: whatever subset of the support files fails to load (cannot
\* be decoded or parsed), the ingest request succeeds and appends the chunks
\* of every other support file and of the HTML file, provided every support
\* file could be written to the working directory; a support file that cannot
\* be written aborts the request with a 500 and nothing is appended.
C2_UnloadableFileIsSkipped ==
    OnlySupportFilesCanFail =>
        IF AllStorable(last.req.files)
        THEN /\ last.resp.status = 200
             /\ last.resp.chunks_created = Len(ExpectedChunks(last.req))
             /\ Len(store) >= last.resp.chunks_created
             /\ Suffix(store, last.resp.chunks_created) = ExpectedChunks(last.req)
        ELSE last.resp.status = 500

\* C2's case: an ingest whose first support file does not load and whose
\* second does has succeeded, and the second file's chunks are in the store.
C2_Witness ==
    /\ LastWasIngest
    /\ last.resp.status = 200
    /\ Len(last.req.files) = 2
    /\ ~Loads(last.req.files[1])
    /\ Loads(last.req.files[2])
    /\ \E i \in 1..Len(store) : store[i].source = last.req.files[2].name

\* C3: a request that ends in a failure leaves the persistent state (the
\* working directory with the HTML artifact, the store) as it found it.
C3_FailureLeavesNoPartialState ==
    [][(last'.op # "none" /\ last'.resp.status >= 400)
          => (dir' = dir /\ store' = store)]_vars

\* The calls the last request made to the collaborator that raised.
CallsTo(who) ==
    IF who = "llm" THEN last.resp.calls.llm
    ELSE last.resp.calls.add + last.resp.calls.retrieve

\* C4: in all three operations an upstream failure is surfaced as a request
\* failure whose detail is the upstream error text, after exactly one
\* attempt.
C4_UpstreamFailureSurfacedVerbatim ==
    last.resp.calls.raised # "none" =>
        /\ last.resp.status = 500
        /\ last.resp.detail = UpstreamText(last.resp.calls.raised)
        /\ CallsTo(last.resp.calls.raised) = 1

\* C5: the store is append-only (every step leaves the chunks it found in
\* place, and only an ingest adds any); a successful ingest adds exactly
\* chunks_created chunks; and a successful ingest of the request that the
\* previous successful ingest handled appends the same chunks again.
C5_IngestIsAdditive ==
    [][/\ IsPrefix(store, store')
       /\ ~IngestStep => store' = store
       /\ (IngestStep /\ last'.resp.status = 200) =>
             /\ Len(store') = Len(store) + last'.resp.chunks_created
             /\ (LastWasIngest /\ last.resp.status = 200 /\ last'.req = last.req) =>
                   /\ last'.resp.chunks_created = last.resp.chunks_created
                   /\ Suffix(store', last'.resp.chunks_created)
                        = Suffix(store, last.resp.chunks_created)]_vars

\* C5's case: the same request was ingested twice with success, and the
\* store holds its chunks twice.
C5_Witness ==
    /\ LastWasIngest
    /\ last.resp.status = 200
    /\ last.resp.chunks_created > 0
    /\ Len(store) = 2 * last.resp.chunks_created
    /\ SubSeq(store, 1, last.resp.chunks_created)
         = Suffix(store, last.resp.chunks_created)

\* The content the artifact path holds after an ingest request: that of the
\* last write the request made to it.  The request writes its support files
\* in order up to the first that cannot be written, and its HTML file if
\* there is none.
RECURSIVE LastWriteTo(_, _, _)
LastWriteTo(files, html, before) ==
    IF files = <<>> THEN html.content
    ELSE IF ~Storable(Head(files).name) THEN before
    ELSE LastWriteTo(Tail(files), html,
                     IF Head(files).name = HtmlName THEN Head(files).content
                     ELSE before)

\* C6: the artifact holds the complete content of one upload, the one
\* written last: after a successful ingest that is the request's HTML file,
\* after any ingest it is the last write the request made to the path, no
\* other request changes it, and a Generate Script request that reaches
\* retrieval has read exactly that content.
C6_LastWriterWins ==
    [][/\ (IngestStep /\ last'.resp.status = 200) =>
             dir'[HtmlName] = last'.req.html.content
       /\ IngestStep =>
             dir'[HtmlName] = LastWriteTo(last'.req.files, last'.req.html,
                                          dir[HtmlName])
       /\ ~IngestStep => dir' = dir
       /\ (last'.op = "script" /\ last'.resp.calls.retrieve = 1) =>
             last'.resp.calls.html = dir[HtmlName]]_vars

\* C6's case: a first ingest stored the chunks of page h1, a later ingest
\* uploaded page h2, and Generate Script put h2 into its prompt.
C6_Witness ==
    /\ LastWasScript
    /\ last.resp.status = 200
    /\ last.resp.calls.html = "h2"
    /\ dir[HtmlName] = "h2"
    /\ \E i \in 1..Len(store) : store[i].content = "h1"

(***************************************************************************)
(* Python's string functions, character by character                       *)
(***************************************************************************)
\* The characters str.strip() removes.
Whitespace == {" ", "\n", "\t", "\r"}

\* s.lstrip(chars) and s.rstrip(chars): s from its first, and up to its
\* last, character outside chars.
LStrip(s, chars) ==
    LET keep == {i \in 1..Len(s) : s[i] \notin chars} IN
    IF keep = {} THEN <<>>
    ELSE SubSeq(s, CHOOSE i \in keep : \A j \in keep : i <= j, Len(s))

RStrip(s, chars) ==
    LET keep == {i \in 1..Len(s) : s[i] \notin chars} IN
    IF keep = {} THEN <<>>
    ELSE SubSeq(s, 1, CHOOSE i \in keep : \A j \in keep : j <= i)

\* s.strip(chars)
Strip(s, chars) == RStrip(LStrip(s, chars), chars)

\* s.startswith(p)
StartsWith(s, p) == Len(p) <= Len(s) /\ SubSeq(s, 1, Len(p)) = p

\* p in s
Contains(s, p) ==
    \E i \in 1..(Len(s) + 1) :
        i + Len(p) - 1 <= Len(s) /\ SubSeq(s, i, i + Len(p) - 1) = p

\* s.split(sep) for a one-character sep: the pieces between the separators,
\* empty pieces included; at least one piece.
Split(s, sep) ==
    LET seps == {i \in 1..Len(s) : s[i] = sep}
        n == Cardinality(seps)
        cut(k) == IF k = 0 THEN 0
                  ELSE IF k = n + 1 THEN Len(s) + 1
                  ELSE CHOOSE i \in seps : Cardinality({j \in seps : j < i}) = k - 1
    IN  [k \in 1..(n + 1) |-> SubSeq(s, cut(k - 1) + 1, cut(k) - 1)]

\* s.replace(old, ""): the occurrences of old found from the left, each
\* search starting after the previous occurrence.
RECURSIVE Remove(_, _)
Remove(s, old) ==
    IF s = <<>> THEN <<>>
    ELSE IF StartsWith(s, old) THEN Remove(SubSeq(s, Len(old) + 1, Len(s)), old)
    ELSE <<Head(s)>> \o Remove(Tail(s), old)

RECURSIVE Concat(_)
Concat(ss) == IF ss = <<>> THEN <<>> ELSE Head(ss) \o Concat(Tail(ss))

Pipe == "|"
Newline == "\n"
Dashes == <<"-", "-", "-">>
TestIdHeader == <<"T", "e", "s", "t", "_", "I", "D">>
\* The backquote character (written as a name: the character itself opens a
\* quotation in a TLA+ source file).
Backquote == "BACKQUOTE"
Fence == <<Backquote, Backquote, Backquote>>
FencePython == Fence \o <<"p", "y", "t", "h", "o", "n">>

(***************************************************************************)
(* Frontend.py, Phase 3: the markdown table of the cached plan             *)
(***************************************************************************)
\* cells = [c.strip() for c in line.strip('|').split('|')]
RECURSIVE StripEach(_)
StripEach(pieces) ==
    IF pieces = <<>> THEN <<>>
    ELSE <<Strip(Head(pieces), Whitespace)>> \o StripEach(Tail(pieces))

Cells(line) == StripEach(Split(Strip(line, {Pipe}), Pipe))

\* if "---" in cells[0] or "Test_ID" in cells[0]: continue
SkippedRow(cells) == Contains(cells[1], Dashes) \/ Contains(cells[1], TestIdHeader)

RowData(cells) ==
    [Test_ID |-> cells[1],
     Feature |-> IF Len(cells) > 1 THEN cells[2] ELSE <<>>,
     Scenario |-> IF Len(cells) > 2 THEN cells[3] ELSE <<>>,
     Expected_Result |-> IF Len(cells) > 3 THEN cells[4] ELSE <<>>,
     Grounded_Source |-> IF Len(cells) > 4 THEN cells[5] ELSE <<>>]

\* table_lines = [line for line in lines if line.strip().startswith("|")]
\* and the loop over them.
RECURSIVE RowsOf(_)
RowsOf(lines) ==
    IF lines = <<>> THEN <<>>
    ELSE LET line == Head(lines)
             cells == Cells(line)
         IN  (IF StartsWith(Strip(line, Whitespace), <<Pipe>>)
                 /\ ~SkippedRow(cells) /\ Len(cells) >= 4
              THEN <<RowData(cells)>> ELSE <<>>) \o RowsOf(Tail(lines))

\* lines = raw_plan.strip().split('\n')
ParseTable(raw_plan) == RowsOf(Split(Strip(raw_plan, Whitespace), Newline))

(***************************************************************************)
(* Frontend.py, Phase 3: the cleanup of a returned script                  *)
(***************************************************************************)
\* if script_code.startswith(FencePython):
\*     script_code = script_code.replace(FencePython, "").replace(Fence, "")
CleanScript(script_code) ==
    IF StartsWith(script_code, FencePython)
    THEN Remove(Remove(script_code, FencePython), Fence)
    ELSE script_code

(***************************************************************************)
(* The table parser on plan texts (SpecParse)                              *)
(***************************************************************************)
MaxLines == 2

\* A plan text is written line by line.  A table line is an indent, a pipe,
\* then each cell between spaces and closed by a pipe, then trailing blanks;
\* a prose line has no pipe.
TableLine(indent, cells, tail) ==
    [kind |-> "row", indent |-> indent, cells |-> cells, tail |-> tail]
ProseLine == [kind |-> "prose", indent |-> <<>>, cells |-> <<>>, tail |-> <<>>]

RECURSIVE RenderCells(_)
RenderCells(cells) ==
    IF cells = <<>> THEN <<>>
    ELSE <<" ">> \o Head(cells) \o <<" ", Pipe>> \o RenderCells(Tail(cells))

RenderLine(l) ==
    IF l.kind = "prose" THEN <<"n", "o">>
    ELSE l.indent \o <<Pipe>> \o RenderCells(l.cells) \o l.tail

RECURSIVE RenderPlan(_)
RenderPlan(lines) ==
    IF lines = <<>> THEN <<>>
    ELSE IF Len(lines) = 1 THEN RenderLine(lines[1])
    ELSE RenderLine(Head(lines)) \o <<Newline>> \o RenderPlan(Tail(lines))

\* The rows a plan is written with: the header, the separator, data rows of
\* five, four and three cells, and a data row whose identifier starts with
\* the header's word.
CellRows ==
    {<<TestIdHeader, <<"F">>, <<"S">>, <<"E">>, <<"G">>>>,
     <<Dashes, Dashes, Dashes, Dashes, Dashes>>,
     <<<<"T", "1">>, <<"f">>, <<"s">>, <<"e">>, <<"g">>>>,
     <<<<"T", "2">>, <<"f">>, <<"s">>, <<"e">>>>,
     <<<<"T", "3">>, <<"f">>, <<"s">>>>,
     <<TestIdHeader \o <<"4">>, <<"f">>, <<"s">>, <<"e">>, <<"g">>>>}

PlanLines ==
    {TableLine(indent, cells, tail) :
        indent \in {<<>>, <<" ">>}, cells \in CellRows, tail \in {<<>>, <<" ">>}}
    \cup {ProseLine}

PlanLineSeqs == UNION {[1..n -> PlanLines] : n \in 1..MaxLines}

BackendIdle ==
    /\ llm = TRUE
    /\ dir = [n \in FileNames |-> NoFile]
    /\ store = <<>>
    /\ last = NoRequest
    /\ nIngest = 0
    /\ conn = ConnIdle

InitParse ==
    /\ BackendIdle
    /\ ui = UiIdle
    /\ \E lines \in PlanLineSeqs :
          txt = [pc |-> "plan", lines |-> lines, rows |-> <<>>]

\* Phase 3 with this plan in st.session_state['last_test_plan'].
ParsePlan ==
    /\ txt.pc = "plan"
    /\ txt' = [txt EXCEPT !.pc = "parsed",
                          !.rows = ParseTable(RenderPlan(txt.lines))]
    /\ UNCHANGED <<llm, dir, store, last, nIngest, ui, conn>>

NextParse == ParsePlan

SpecParse == InitParse /\ [][NextParse]_vars

\* The row the claim expects of a table line: its first five cells, a missing
\* fifth one empty.
ClaimedRow(cells) ==
    [Test_ID |-> cells[1], Feature |-> cells[2], Scenario |-> cells[3],
     Expected_Result |-> cells[4],
     Grounded_Source |-> IF Len(cells) >= 5 THEN cells[5] ELSE <<>>]

\* The lines the claim keeps.  "Starts with a pipe character" is read either
\* of the line as written (literal) or of the line without the blanks around
\* it.
ClaimKeeps(l, literal) ==
    /\ l.kind = "row"
    /\ literal => l.indent = <<>>
    /\ ~\E i \in 1..Len(l.cells) : Contains(l.cells[i], Dashes)
    /\ l.cells[1] # TestIdHeader
    /\ Len(l.cells) >= 4

RECURSIVE ClaimedRows(_, _)
ClaimedRows(lines, literal) ==
    IF lines = <<>> THEN <<>>
    ELSE (IF ClaimKeeps(Head(lines), literal)
          THEN <<ClaimedRow(Head(lines).cells)>> ELSE <<>>)
         \o ClaimedRows(Tail(lines), literal)

\* C7: the parser returns, in line order, exactly the rows of the lines that
\* start with a pipe, are not separator rows, do not have a first cell equal
\* to Test_ID and have at least 4 cells; each row is that line's first five
\* cells, a missing fifth cell empty.
C7_ParserReturnsTheDataRows ==
    txt.pc = "parsed" =>
        \E literal \in BOOLEAN : txt.rows = ClaimedRows(txt.lines, literal)

(***************************************************************************)
(* The script cleanup on script texts (SpecClean)                          *)
(***************************************************************************)
MaxPieces == 3

\* A script text is a few pieces: fences, a backquote, a line of code, a line
\* break.
ScriptPieces == {FencePython, Fence, <<Backquote>>, <<"x">>, <<Newline>>}

ScriptTexts == {Concat(ps) : ps \in UNION {[1..n -> ScriptPieces] : n \in 1..MaxPieces}}

InitClean ==
    /\ BackendIdle
    /\ ui = UiIdle
    /\ \E t \in ScriptTexts : txt = [pc |-> "script", script |-> t, shown |-> <<>>]

\* st.code(script_code) after the cleanup, on either path of Phase 3.
ShowScript ==
    /\ txt.pc = "script"
    /\ txt' = [txt EXCEPT !.pc = "shown", !.shown = CleanScript(txt.script)]
    /\ UNCHANGED <<llm, dir, store, last, nIngest, ui, conn>>

NextClean == ShowScript

SpecClean == InitClean /\ [][NextClean]_vars

EndsWith(s, p) == Len(p) <= Len(s) /\ SubSeq(s, Len(s) - Len(p) + 1, Len(s)) = p

\* What the claim expects: the fence marker at the start removed, the fence
\* marker at the end removed, every other character kept.  The marker at the
\* start is read either as the fence with its language tag only or as that
\* or the bare fence (generic); the marker at the end is removed either
\* whenever it is there or only together with one at the start (paired).
ClaimedClean(s, generic, paired) ==
    LET lead == IF StartsWith(s, FencePython) THEN Len(FencePython)
                ELSE IF generic /\ StartsWith(s, Fence) THEN Len(Fence)
                ELSE 0
        rest == SubSeq(s, lead + 1, Len(s))
    IN  IF EndsWith(rest, Fence) /\ (paired => lead > 0)
        THEN SubSeq(rest, 1, Len(rest) - Len(Fence))
        ELSE rest

\* C9: the cleanup removes a fence marker at the start of the text and one at
\* the end when they are present and leaves every other character
\* unchanged; a text with neither is displayed unchanged.
C9_CleanupStripsOuterFencesOnly ==
    txt.pc = "shown" =>
        \E generic, paired \in BOOLEAN :
            txt.shown = ClaimedClean(txt.script, generic, paired)

(***************************************************************************)
(* The Streamlit session driving the backend (SpecUI)                      *)
(***************************************************************************)
Modes == {"Phase 1", "Phase 2", "Phase 3"}

\* Streamlit runs the script again on every interaction: what the previous
\* run displayed is gone, st.session_state and the sidebar's mode stay.
Rerun(u) ==
    [UiIdle EXCEPT !.mode = u.mode, !.hasPlan = u.hasPlan, !.plan = u.plan,
                   !.okPlan = u.okPlan]

\* Phase 2, on the answer to /generate-test-cases: the plan is saved on a
\* 200 and only then.
CachePlanAlways(u, resp) == [u EXCEPT !.hasPlan = TRUE, !.plan = resp.body]

CachePlan(u, resp) ==
    IF resp.status = 200
    THEN [u EXCEPT !.hasPlan = TRUE, !.plan = resp.body]
    ELSE u

\* if 'last_test_plan' in st.session_state and st.session_state['last_test_plan']
PlanInMemory(u) == u.hasPlan /\ u.plan # <<>>

\* selected_cases = edited_df[edited_df.Select]: the ticked rows, in the
\* order of the table.
RECURSIVE SelectedFrom(_, _, _)
SelectedFrom(rows, checked, k) ==
    IF k > Len(rows) THEN <<>>
    ELSE (IF k \in checked THEN <<rows[k]>> ELSE <<>>)
         \o SelectedFrom(rows, checked, k + 1)

SelectedCases(rows, checked) == SelectedFrom(rows, checked, 1)

\* test_case_str
TestCaseStr(row) ==
    <<"T", "e", "s", "t", "_", "I", "D", ":", " ">> \o row.Test_ID \o <<Newline>>
    \o <<"F", "e", "a", "t", "u", "r", "e", ":", " ">> \o row.Feature \o <<Newline>>
    \o <<"S", "c", "e", "n", "a", "r", "i", "o", ":", " ">> \o row.Scenario \o <<Newline>>
    \o <<"E", "x", "p", "e", "c", "t", "e", "d", "_", "R", "e", "s", "u", "l", "t", ":", " ">> \o row.Expected_Result \o <<Newline>>
    \o <<"S", "o", "u", "r", "c", "e", ":", " ">> \o row.Grounded_Source

\* progress_bar.progress((i + 1) / total), as numerator and denominator
ProgressStuck(i, total) == <<i, total>>

ProgressAfter(i, total) == <<i + 1, total>>

\* What one answer to /generate-selenium-script shows: the cleaned script on
\* a 200, st.error otherwise (also when requests.post raises).
Shown(connected, resp) ==
    IF connected /\ resp.status = 200
    THEN [kind |-> "code", text |-> CleanScript(resp.body)]
    ELSE [kind |-> "error", text |-> <<>>]

\* What the user uploads in Phase 1, and what the LLM returns to this
\* session: a plan with a table of three data rows, a plan without a table,
\* an empty plan; a bare script and a fenced one.
UiDocs == <<GoodText>>
UiHtml == [name |-> "page.html", content |-> "h1"]

PlanWithTable ==
    RenderPlan(<<TableLine(<<>>, <<TestIdHeader, <<"F">>, <<"S">>, <<"E">>, <<"G">>>>, <<>>),
                 TableLine(<<>>, <<Dashes, Dashes, Dashes, Dashes, Dashes>>, <<>>),
                 TableLine(<<>>, <<<<"T", "1">>, <<"f">>, <<"s">>, <<"e">>, <<"g">>>>, <<>>),
                 TableLine(<<>>, <<<<"T", "2">>, <<"f">>, <<"s">>, <<"e">>>>, <<>>),
                 TableLine(<<>>, <<<<"T", "3">>, <<"f">>, <<"s">>, <<"e">>, <<"g">>>>, <<>>)>>)

UiPlanTexts == {PlanWithTable, RenderPlan(<<ProseLine>>), <<>>}

UiScriptTexts == {<<"x">>, FencePython \o <<Newline, "x", Newline>> \o Fence}

InitUI ==
    /\ llm \in BOOLEAN
    /\ dir = [n \in FileNames |-> NoFile]
    /\ store = <<>>
    /\ last = NoRequest
    /\ nIngest = 0
    /\ ui = UiIdle
    /\ txt = TxtIdle
    /\ conn = ConnIdle

\* The sidebar's radio.
Navigate ==
    \E m \in Modes :
        /\ ui.pc = "idle"
        /\ ui' = [Rerun(ui) EXCEPT !.mode = m]
        /\ UNCHANGED <<llm, dir, store, last, nIngest, txt, conn>>

\* Phase 1, Build Knowledge Base with both uploads present.
PressBuild ==
    \E connected, addRaises \in BOOLEAN :
        /\ ui.pc = "idle"
        /\ ui.mode = "Phase 1"
        /\ nIngest < MaxIngests
        /\ LET req == [files |-> UiDocs, html |-> UiHtml]
               r == BuildKnowledgeBase(dir, store, req, addRaises)
           IN  IF connected
               THEN /\ dir' = r.dir
                    /\ store' = r.store
                    /\ last' = [op |-> "ingest", req |-> req, resp |-> r.resp]
               ELSE UNCHANGED <<dir, store, last>>
        /\ nIngest' = nIngest + 1
        /\ ui' = Rerun(ui)
        /\ UNCHANGED <<llm, txt, conn>>

\* Phase 2, Generate Test Plan with a query in the text area.
PressGeneratePlan ==
    \E connected \in BOOLEAN, outcome \in Outcomes, text \in UiPlanTexts :
        /\ ui.pc = "idle"
        /\ ui.mode = "Phase 2"
        /\ LET resp == GenerateTestCases(llm, outcome, text) IN
           IF connected
           THEN /\ last' = [op |-> "plan", req |-> [prompt |-> AnyPrompt],
                            resp |-> resp]
                /\ ui' = [CachePlan(Rerun(ui), resp) EXCEPT
                            !.okPlan = IF resp.status = 200
                                       THEN [seen |-> TRUE, text |-> resp.body]
                                       ELSE @]
           ELSE /\ last' = last
                /\ ui' = Rerun(ui)
        /\ UNCHANGED <<llm, dir, store, nIngest, txt, conn>>

\* Phase 3, Generate Scripts with at least one row ticked: the button exists
\* when a plan is in memory and its table has rows.
PressGenerateScripts ==
    /\ ui.pc = "idle"
    /\ ui.mode = "Phase 3"
    /\ PlanInMemory(ui)
    /\ LET rows == ParseTable(ui.plan) IN
       /\ rows # <<>>
       /\ \E checked \in (SUBSET (1..Len(rows))) \ {{}} :
             ui' = [Rerun(ui) EXCEPT
                      !.rows = rows, !.checked = checked,
                      !.selected = SelectedCases(rows, checked),
                      !.total = Cardinality(checked),
                      !.progress = <<0, 1>>, !.i = 0, !.pc = "send"]
    /\ UNCHANGED <<llm, dir, store, last, nIngest, txt, conn>>

\* The loop body up to requests.post.
LoopSend ==
    /\ ui.pc = "send"
    /\ ui' = [ui EXCEPT !.issued = Append(@, TestCaseStr(ui.selected[ui.i + 1])),
                        !.inflight = @ + 1, !.pc = "wait"]
    /\ UNCHANGED <<llm, dir, store, last, nIngest, txt, conn>>

\* The backend handles the request (or cannot be reached), the answer is
\* shown, the progress bar moves, and the loop goes on or ends.
LoopReceive ==
    \E connected \in BOOLEAN, outcome \in Outcomes, text \in UiScriptTexts :
        /\ ui.pc = "wait"
        /\ LET resp == GenerateSeleniumScript(llm, dir, outcome, text) IN
           /\ last' = IF connected
                      THEN [op |-> "script",
                            req |-> [test_case |-> ui.issued[Len(ui.issued)]],
                            resp |-> resp]
                      ELSE last
           /\ ui' = [ui EXCEPT !.shown = Append(@, Shown(connected, resp)),
                               !.inflight = @ - 1,
                               !.progress = ProgressAfter(ui.i, ui.total),
                               !.i = @ + 1,
                               !.pc = IF ui.i + 1 < ui.total THEN "send" ELSE "idle"]
        /\ UNCHANGED <<llm, dir, store, nIngest, txt, conn>>

\* Phase 3, Generate Script (Manual) with a scenario pasted: outside the
\* test on the plan in memory.
ManualScript ==
    \E connected \in BOOLEAN, outcome \in Outcomes, text \in UiScriptTexts :
        /\ ui.pc = "idle"
        /\ ui.mode = "Phase 3"
        /\ LET resp == GenerateSeleniumScript(llm, dir, outcome, text) IN
           /\ last' = IF connected
                      THEN [op |-> "script", req |-> [test_case |-> AnyPrompt],
                            resp |-> resp]
                      ELSE last
           /\ ui' = [Rerun(ui) EXCEPT !.manual = Shown(connected, resp).kind]
        /\ UNCHANGED <<llm, dir, store, nIngest, txt, conn>>

NextUI ==
    \/ Navigate
    \/ PressBuild
    \/ PressGeneratePlan
    \/ PressGenerateScripts
    \/ LoopSend
    \/ LoopReceive
    \/ ManualScript

SpecUI == InitUI /\ [][NextUI]_vars

(***************************************************************************)
(* Claims about the Streamlit session                                      *)
(***************************************************************************)
\* The index in the table of the k-th ticked row, counting upwards.
NthChecked(checked, k) ==
    CHOOSE j \in checked : Cardinality({m \in checked : m < j}) = k - 1

RunStarted == ui.total > 0
RunFinished == RunStarted /\ ui.pc = "idle"

\* C8: in a Generate Scripts run, requests go out one at a time - at most one
\* is unanswered, and the next is sent only after the previous is answered -
\* one per ticked row, in the order of the table, each carrying that row's
\* five fields; the progress bar stands at answered/total after each answer;
\* a failed request only shows an error: the run goes through every ticked
\* row and ends at total/total.
C8_ScriptLoopIsSequential ==
    RunStarted =>
        LET sent == Len(ui.issued)
            answered == Len(ui.shown)
        IN  /\ ui.total = Cardinality(ui.checked)
            /\ ui.rows = ParseTable(ui.plan)
            /\ ui.checked \subseteq 1..Len(ui.rows)
            /\ ui.inflight \in {0, 1}
            /\ (ui.inflight = 1) <=> (ui.pc = "wait")
            /\ sent = answered + ui.inflight
            /\ sent <= ui.total
            /\ \A k \in 1..sent :
                  ui.issued[k] = TestCaseStr(ui.rows[NthChecked(ui.checked, k)])
            /\ ui.progress[1] * ui.total = answered * ui.progress[2]
            /\ RunFinished => /\ sent = ui.total
                              /\ answered = ui.total
                              /\ ui.progress[1] = ui.progress[2]

\* A finished run over all three rows of the table in which one request
\* failed and a later one succeeded.
C8_Witness ==
    /\ RunFinished
    /\ ui.total = 3
    /\ ui.shown[1].kind = "error"
    /\ ui.shown[3].kind = "code"

\* C10: the plan in memory is the text of the most recent successful answer
\* to Generate Test Plan, and there is one exactly when there was such an
\* answer: failed plan requests, ingests and script requests leave it as it
\* is; requests from the table are only sent for rows of that plan; the
\* manual path can be taken in Phase 3 whatever is in memory.
C10_CachedPlanIsLastSuccessfulPlan ==
    /\ ui.hasPlan = ui.okPlan.seen
    /\ ui.plan = ui.okPlan.text
    /\ (ui.pc # "idle" \/ ui.issued # <<>>) =>
          /\ ui.okPlan.seen
          /\ ui.rows = ParseTable(ui.okPlan.text)
    /\ (ui.pc = "idle" /\ ui.mode = "Phase 3") => ENABLED ManualScript

\* The plan is still in memory in Phase 3 although the last request the
\* backend handled was a plan request that failed.
C10_Witness ==
    /\ ui.hasPlan
    /\ last.op = "plan"
    /\ last.resp.status = 500
    /\ ui.mode = "Phase 3"

(***************************************************************************)
(* Concurrent ingest requests on the one event loop (SpecConc)             *)
(*                                                                         *)
(* build_knowledge_base line by line: the server can hold several ingest   *)
(* requests at once, and starts or resumes a handler only when the         *)
(* coroutine that has the event loop gives it up, which a coroutine does   *)
(* at an await and nowhere else.                                           *)
(***************************************************************************)
\* The uploads of the concurrent clients: a support file that loads or one
\* that cannot be stored, and three different pages.
ConcBatches == {<<GoodText>>, <<BadName>>}
ConcHtml == {u \in HtmlUploads : u.content \in {"h1", "h2", "hbin"}}

\* Whether the handler gives up the event loop at the line it has reached.
\* The body of build_knowledge_base (Backend.py:102-128) holds no await:
\* the copies, the re-read and add_documents are plain calls.
AwaitsAfterWrite(pc) == pc = "written"

Awaits(pc) == FALSE

\* A handler that has the event loop, and whether c's handler can run.
Running(h) == h.pc \notin {"idle", "accepted"} /\ ~Awaits(h.pc)
CanRun(c) == \A d \in Clients \ {c} : ~Running(conn[d])

Answer(c, resp) ==
    /\ last' = [op |-> "ingest", req |-> conn[c].req, resp |-> resp]
    /\ conn' = [conn EXCEPT ![c] = NoHandler]

InitConc ==
    /\ llm \in BOOLEAN
    /\ dir = [n \in FileNames |-> NoFile]
    /\ store = <<>>
    /\ last = NoRequest
    /\ nIngest = 0
    /\ ui = UiIdle
    /\ txt = TxtIdle
    /\ conn = ConnIdle

\* A client's request reaches the server.
Accept(c) ==
    /\ conn[c].pc = "idle"
    /\ nIngest < MaxIngests
    /\ \E files \in ConcBatches, html \in ConcHtml :
          conn' = [conn EXCEPT ![c] = [pc |-> "accepted",
                                       req |-> [files |-> files, html |-> html],
                                       docs |-> <<>>]]
    /\ nIngest' = nIngest + 1
    /\ UNCHANGED <<llm, dir, store, last, ui, txt>>

\* 1. Process Support Docs (105-113)
StoreSupport(c) ==
    /\ conn[c].pc = "accepted"
    /\ CanRun(c)
    /\ LET s1 == StoreAndLoad(conn[c].req.files, dir, <<>>) IN
       /\ dir' = s1.dir
       /\ IF s1.raised
          THEN Answer(c, Unhandled(NoCalls))
          ELSE /\ conn' = [conn EXCEPT ![c].pc = "stored", ![c].docs = s1.docs]
               /\ last' = last
    /\ UNCHANGED <<llm, store, nIngest, ui, txt>>

\* 2. Process HTML: the write to the fixed path (116-118)
WriteHtmlFile(c) ==
    /\ conn[c].pc = "stored"
    /\ CanRun(c)
    /\ dir' = WriteHtml(dir, conn[c].req.html)
    /\ conn' = [conn EXCEPT ![c].pc = "written"]
    /\ UNCHANGED <<llm, store, last, nIngest, ui, txt>>

\* ... and the re-read of the fixed path (119)
ReadHtmlFile(c) ==
    /\ conn[c].pc = "written"
    /\ CanRun(c)
    /\ LET h == ProcessHtmlFile(dir) IN
       IF ~h.ok
       THEN Answer(c, Unhandled(NoCalls))
       ELSE /\ conn' = [conn EXCEPT ![c].pc = "read", ![c].docs = @ \o h.docs]
            /\ last' = last
    /\ UNCHANGED <<llm, dir, store, nIngest, ui, txt>>

\* 3. Chunking & Storage, and the response (122-128)
ChunkAndStore(c) ==
    /\ conn[c].pc = "read"
    /\ CanRun(c)
    /\ \E addRaises \in BOOLEAN :
          LET chunked == SplitDocuments(conn[c].docs) IN
          IF chunked = <<>>
          THEN /\ store' = store
               /\ Answer(c, Response(200, "", 0, <<>>, NoCalls))
          ELSE IF addRaises
          THEN /\ store' = store
               /\ Answer(c, Unhandled([NoCalls EXCEPT !.add = 1, !.raised = "store"]))
          ELSE /\ store' = AddDocuments(store, chunked)
               /\ Answer(c, Response(200, "", Len(chunked), <<>>,
                                     [NoCalls EXCEPT !.add = 1]))
    /\ UNCHANGED <<llm, dir, nIngest, ui, txt>>

NextConc ==
    \E c \in Clients :
        \/ Accept(c)
        \/ StoreSupport(c)
        \/ WriteHtmlFile(c)
        \/ ReadHtmlFile(c)
        \/ ChunkAndStore(c)

SpecConc == InitConc /\ [][NextConc]_vars

\* The documents and chunks made from a page: the type=text and type=code
\* segments.
FromHtml(doc) == doc.type \in {"text", "code"}
OwnHtmlDocs(html) ==
    <<Doc(html.content, "all", HtmlName, "text"),
      Doc(html.content, "all", HtmlName, "code")>>

\* C11: under any interleaving of concurrent ingest requests, the
\* HTML-derived documents a handler holds after the re-read, and the
\* HTML-derived chunks a request appended to the store, are those of the page
\* uploaded in that same request, never of a page another request wrote to
\* the fixed path in between.
C11_HtmlChunksFromOwnUpload ==
    /\ \A c \in Clients :
          conn[c].pc = "read" =>
              SelectSeq(conn[c].docs, FromHtml) = OwnHtmlDocs(conn[c].req.html)
    /\ (last.op = "ingest" /\ last.resp.status = 200) =>
          SelectSeq(Suffix(store, last.resp.chunks_created), FromHtml)
              = SplitDocuments(OwnHtmlDocs(last.req.html))

\* Two requests with different pages are in the server at once: one has
\* written and re-read its page, the other waits for its handler to start.
C11_Witness ==
    \E c, d \in Clients :
        /\ conn[c].pc = "read"
        /\ conn[d].pc = "accepted"
        /\ conn[d].req.html.content # conn[c].req.html.content
        /\ conn[d].req.html.content \in Utf8Contents

====
